---- MODULE Spec2Model ----
(***************************************************************************)
(* Model of the PaymentLinkPortal page-object test framework:              *)
(*   tests/config/environment.ts  (environment resolver, CURRENT_ENV)      *)
(*   Pages/POManager.ts           (page object manager)                    *)
(*   Pages/Login/LoginPage.ts     (login page object)                      *)
(*   Pages/basePage.ts, utils/commonUtils.ts (base page, primitives)       *)
(***************************************************************************)
EXTENDS Integers, Sequences, FiniteSets, TLC

VARIABLES
  testEnv,      \* process.env.TEST_ENV: [defined, str]
  CURRENT_ENV,  \* the exported constant of environment.ts: [defined, str]
  bootEnv,      \* history: TEST_ENV as it was when environment.ts was loaded
  workers,      \* the test sessions the runner executes
  heap,         \* the page objects constructed so far; a reference is an index
  pom,          \* per session: the POManager of the test (beforeEach)
  got,          \* per session, history: what the accessors returned
  dom,          \* per session: state of each control in the page
  value,        \* per session: value of each input field
  marked,       \* per session: controls carrying the highlight style
  inline,       \* per session: elements with an inline border and background of their own
  textContent,         \* per session: textContent content of the elements that show textContent
  netBusy,      \* per session: requests in flight
  url,          \* per session: the URL of the page
  submitted,    \* per session: "none", or how the application took the last submit
  status,       \* per session: "init", "idle", "running", "failed"
  error,        \* per session: the error that ended the test
  op,           \* per session: the page object method being executed
  elapsed,      \* per session: time spent in the current engine call
  log,          \* per session: engine calls completed by the current method
  seen,         \* per session, history: controls visible at some moment of the method
  together,     \* per session, history: all controls were visible at one moment
  before,       \* per session, history: the field values when clearForm was called
  opsLeft       \* per session: methods the test may still call

envVars == <<testEnv, CURRENT_ENV, bootEnv>>
pomVars == <<heap, pom, got>>
pageVars == <<dom, value, marked, inline, textContent, netBusy, url, submitted>>
runVars == <<status, error, op, elapsed, log, opsLeft>>
histVars == <<seen, together, before>>

vars == <<testEnv, CURRENT_ENV, bootEnv, workers, heap, pom, got, dom, value,
          marked, inline, textContent, netBusy, url, submitted, status, error, op, elapsed, log, seen,
          together, before, opsLeft>>

----------------------------------------------------------------------------
(* Strings are sequences of one-character strings.                         *)

\* Length bound of the enumerated part of an override value.
MaxLen == 4

Lower == <<"a","b","c","d","e","f","g","h","i","j","k","l","m",
           "n","o","p","q","r","s","t","u","v","w","x","y","z">>
Upper == <<"A","B","C","D","E","F","G","H","I","J","K","L","M",
           "N","O","P","Q","R","S","T","U","V","W","X","Y","Z">>

\* The letters of QAT, UAT, PROD and http, in both cases.
Alphabet == {"q", "a", "t", "u", "p", "r", "o", "d", "h",
             "Q", "A", "T", "U", "P", "R", "O", "D", "H"}

HTTP == <<"h", "t", "t", "p">>

\* The letters of http, in both cases, for overrides written as URLs.
SchemeAlphabet == {"h", "t", "p", "H", "T", "P"}

\* What follows the scheme in an override written as a URL.
UrlTail == <<":", "/", "/", "x">>

Undefined == [defined |-> FALSE, str |-> << >>]
Str(s) == [defined |-> TRUE, str |-> s]

\* The upper-case letter of each lower-case letter.
UpperOf ==
  [c \in {Lower[i] : i \in 1..Len(Lower)} |->
     Upper[CHOOSE i \in 1..Len(Lower) : Lower[i] = c]]

\* String.prototype.toUpperCase on one character
UpperChar(c) == IF c \in DOMAIN UpperOf THEN UpperOf[c] ELSE c

toUpperCase(s) == [i \in 1..Len(s) |-> UpperChar(s[i])]

startsWithAnyCase(s, p) ==
  /\ Len(s) >= Len(p)
  /\ toUpperCase(SubSeq(s, 1, Len(p))) = toUpperCase(p)

startsWith(s, p) ==
  /\ Len(s) >= Len(p)
  /\ SubSeq(s, 1, Len(p)) = p

QAT == <<"Q", "A", "T">>
UAT == <<"U", "A", "T">>
PROD == <<"P", "R", "O", "D">>

QAT_URL == <<"h","t","t","p","s",":","/","/","p","o","r","t","a","l",".",
             "q","a","t",".","a","n","d","d","o","n","e",".","c","o","m",
             "/","#","/","l","o","g","i","n">>
UAT_URL == <<"h","t","t","p","s",":","/","/","p","o","r","t","a","l",".",
             "u","a","t",".","a","n","d","d","o","n","e",".","c","o","m",
             "/","#","/","l","o","g","i","n">>
PROD_URL == <<"h","t","t","p","s",":","/","/","p","o","r","t","a","l",".",
              "a","n","d","d","o","n","e",".","c","o","m",
              "/","#","/","l","o","g","i","n">>

\* export const ENV: Record<string, string>
ENV == [k \in {QAT, UAT, PROD} |->
          IF k = QAT THEN QAT_URL ELSE IF k = UAT THEN UAT_URL ELSE PROD_URL]


\* getEnvironmentUrl looking the key up as written, without toUpperCase
getEnvironmentUrl_CaseSensitive(e) ==
  IF e.defined /\ e.str # << >> /\ e.str \in DOMAIN ENV
  THEN ENV[e.str]
  ELSE IF e.defined /\ e.str # << >> /\ startsWith(e.str, HTTP)
       THEN e.str
       ELSE ENV[QAT]

\* getEnvironmentUrl using any non-empty unrecognized override directly
getEnvironmentUrl_NoDefault(e) ==
  LET envKey == IF e.defined THEN Str(toUpperCase(e.str)) ELSE Undefined
  IN  IF envKey.defined /\ envKey.str # << >> /\ envKey.str \in DOMAIN ENV
      THEN ENV[envKey.str]
      ELSE IF e.defined /\ e.str # << >>
           THEN e.str
           ELSE ENV[QAT]

\* function getEnvironmentUrl(): string, reading process.env.TEST_ENV = e
getEnvironmentUrl(e) ==
  LET envKey == IF e.defined THEN Str(toUpperCase(e.str)) ELSE Undefined
  IN  IF envKey.defined /\ envKey.str # << >> /\ envKey.str \in DOMAIN ENV
      THEN ENV[envKey.str]
      ELSE IF e.defined /\ e.str # << >> /\ startsWith(e.str, HTTP)
           THEN e.str
           ELSE ENV[QAT]

----------------------------------------------------------------------------
(* Page objects: Pages/POManager.ts, Pages/basePage.ts, utils/commonUtils.ts *)

Sessions == {1, 2}

NoRef == 0

\* new CommonUtils(page)
newCommonUtils(h, page) ==
  [heap |-> Append(h, [type |-> "CommonUtils", page |-> page, utils |-> NoRef]),
   ref |-> Len(h) + 1]

\* new LoginPage(page): the BasePage constructor builds this.utils
newLoginPage(h, page) ==
  LET self == Len(h) + 1
      u == newCommonUtils(
             Append(h, [type |-> "LoginPage", page |-> page, utils |-> self + 1]),
             page)
  IN  [heap |-> u.heap, ref |-> self]

NoManager == [made |-> FALSE, page |-> 0, _loginPage |-> NoRef, _commonUtils |-> NoRef]

\* a POManager taking its page objects from those of the first manager made
newPOManager_SharedObjects(h, page) ==
  IF h = << >>
  THEN LET lp == newLoginPage(h, page)
           cu == newCommonUtils(lp.heap, page)
       IN  [heap |-> cu.heap,
            pom |-> [made |-> TRUE, page |-> page,
                     _loginPage |-> lp.ref, _commonUtils |-> cu.ref]]
  ELSE [heap |-> h,
        pom |-> [made |-> TRUE, page |-> page, _loginPage |-> 1, _commonUtils |-> 3]]

\* POManager.constructor(page)
newPOManager(h, page) ==
  LET lp == newLoginPage(h, page)
      cu == newCommonUtils(lp.heap, page)
  IN  [heap |-> cu.heap,
       pom |-> [made |-> TRUE, page |-> page,
                _loginPage |-> lp.ref, _commonUtils |-> cu.ref]]

\* the loginPage accessor constructing a page object on every access
loginPageGetter_Fresh(h, m) ==
  LET lp == newLoginPage(h, m.page)
  IN  [heap |-> lp.heap, pom |-> [m EXCEPT !._loginPage = lp.ref], ref |-> lp.ref]

\* get loginPage(): LoginPage
loginPageGetter(h, m) ==
  IF m._loginPage = NoRef
  THEN LET lp == newLoginPage(h, m.page)
       IN  [heap |-> lp.heap, pom |-> [m EXCEPT !._loginPage = lp.ref], ref |-> lp.ref]
  ELSE [heap |-> h, pom |-> m, ref |-> m._loginPage]

\* get commonUtils(): CommonUtils
commonUtilsGetter(h, m) ==
  IF m._commonUtils = NoRef
  THEN LET cu == newCommonUtils(h, m.page)
       IN  [heap |-> cu.heap, pom |-> [m EXCEPT !._commonUtils = cu.ref], ref |-> cu.ref]
  ELSE [heap |-> h, pom |-> m, ref |-> m._commonUtils]

----------------------------------------------------------------------------
(* Locators and the calls a method makes on the browser automation engine. *)

usernameInput == "usernameInput"
passwordInput == "passwordInput"
loginButton == "loginButton"

Inputs == {usernameInput, passwordInput}
Controls == {usernameInput, passwordInput, loginButton}

\* BasePage: the common elements, and two rows the tableRows locator matches
loadingSpinner == "loadingSpinner"
toastMessage == "toastMessage"
tableRows == "tableRows"
row1 == "row1"
row2 == "row2"

itemsPerPageDropdown == "itemsPerPageDropdown"

Rows == <<row1, row2>>
TextElements == {toastMessage, row1, row2}
Fields == Inputs \cup {itemsPerPageDropdown}
Elements == Controls \cup {loadingSpinner, itemsPerPageDropdown} \cup TextElements

\* Abstract durations, in ticks of the model's clock.
WaitTicks == 1       \* the 30000 ms bound of a wait
HighlightTicks == 1  \* the 300 ms pause of highlight
SettleTicks == 1     \* the 2000 ms pause of navigate

NoUrl == << >>

NoText == << >>

\* hasText: the text a filtered locator or an expectation looks for;
\* try: the call is the body of a try block with an empty catch.
EngineCall(c, target, t, u, n, st) ==
  [call |-> c, target |-> target, text |-> t, url |-> u, ticks |-> n, state |-> st,
   hasText |-> NoText, try |-> FALSE]

Evaluate(loc, style) == EngineCall("evaluate", loc, style, NoUrl, WaitTicks, "attached")
WaitFor(loc, st, n) == EngineCall("waitFor", loc, "", NoUrl, n, st)
LocatorFill(loc, text) == EngineCall("fill", loc, text, NoUrl, WaitTicks, "visible")
LocatorClick(loc) == EngineCall("click", loc, "", NoUrl, WaitTicks, "visible")
LocatorClear(loc) == EngineCall("clear", loc, "", NoUrl, WaitTicks, "visible")
Goto(u, waitUntil) == EngineCall("goto", "page", "", u, WaitTicks, waitUntil)
WaitForLoadState(st) == EngineCall("waitForLoadState", "page", "", NoUrl, WaitTicks, st)
WaitForTimeout(n) == EngineCall("waitForTimeout", "page", "", NoUrl, n, "")
LocatorType(loc, t) == EngineCall("type", loc, t, NoUrl, WaitTicks, "visible")
LocatorSelectOption(loc, v) ==
  EngineCall("selectOption", loc, v, NoUrl, WaitTicks, "visible")
TextContent(loc) == EngineCall("textContent", loc, "", NoUrl, WaitTicks, "attached")
AllTextContents(loc) == EngineCall("allTextContents", loc, "", NoUrl, WaitTicks, "")

\* expect(<the value read last>).toContain(expected)
ExpectToContain(expected) ==
  [EngineCall("expect", "message", "", NoUrl, WaitTicks, "") EXCEPT !.hasText = expected]

\* locator.first()
first(loc) == IF loc = tableRows THEN "tableRows.first()" ELSE loc

\* locator.filter({ hasText: new RegExp(expected, 'i') }) of a wait
Filter(k, expected) == [k EXCEPT !.hasText = expected]

\* try { calls } catch { }
Try(calls) == [i \in DOMAIN calls |-> [calls[i] EXCEPT !.try = TRUE]]

\* CommonUtils.highlight(locator)
utils_highlight(locator) ==
  <<Evaluate(locator, "mark"), WaitForTimeout(HighlightTicks), Evaluate(locator, "unmark")>>

\* CommonUtils.click(locator, highlight = true)
utils_click(locator, highlight) ==
  (IF highlight THEN utils_highlight(locator) ELSE << >>)
    \o <<WaitFor(locator, "visible", WaitTicks), LocatorClick(locator)>>

\* CommonUtils.fill(locator, text, highlight = true)
utils_fill(locator, text, highlight) ==
  (IF highlight THEN utils_highlight(locator) ELSE << >>)
    \o <<WaitFor(locator, "visible", WaitTicks), LocatorFill(locator, text)>>

\* CommonUtils.type(locator, text, delay)
utils_type(locator, t) ==
  <<WaitFor(locator, "visible", WaitTicks), LocatorType(locator, t)>>

\* CommonUtils.waitForVisible(locator, timeout = 30000)
utils_waitForVisible(locator, timeout) == <<WaitFor(locator, "visible", timeout)>>

\* CommonUtils.waitForHidden(locator, timeout = 30000)
utils_waitForHidden(locator, timeout) == <<WaitFor(locator, "hidden", timeout)>>

\* CommonUtils.getText(locator)
utils_getText(locator) ==
  <<WaitFor(locator, "visible", WaitTicks), TextContent(locator)>>

\* getAllTexts without the wait for the first element
utils_getAllTexts_NoWait(locator) == <<AllTextContents(locator)>>

\* CommonUtils.getAllTexts(locator)
utils_getAllTexts(locator) ==
  <<WaitFor(first(locator), "visible", WaitTicks), AllTextContents(locator)>>

\* selectOption without the wait for visibility
utils_selectOption_NoWait(locator, v) == <<LocatorSelectOption(locator, v)>>

\* CommonUtils.selectOption(locator, value)
utils_selectOption(locator, v) ==
  <<WaitFor(locator, "visible", WaitTicks), LocatorSelectOption(locator, v)>>

\* BasePage.navigateTo(url)
navigateTo(u) == <<Goto(u, "domcontentloaded")>>

\* BasePage.click(locator)
click(locator) == utils_click(locator, TRUE)

\* BasePage.fill(locator, text)
fill(locator, text) == utils_fill(locator, text, TRUE)

\* BasePage.clear(locator)
clear(locator) == <<LocatorClear(locator)>>

\* BasePage.waitForVisible(locator)
waitForVisible(locator) == utils_waitForVisible(locator, WaitTicks)

\* BasePage.waitForPageLoad()
waitForPageLoad == <<WaitForLoadState("networkidle")>>

\* BasePage.type(locator, text, delay)
type(locator, t) == utils_type(locator, t)

\* BasePage.selectDropdown(locator, value)
selectDropdown(locator, v) == utils_selectOption(locator, v)

\* BasePage.waitForHidden(locator)
waitForHidden(locator) == utils_waitForHidden(locator, WaitTicks)

\* BasePage.waitForLoadingToComplete(timeout = 30000)
waitForLoadingToComplete == Try(<<WaitFor(loadingSpinner, "hidden", WaitTicks)>>)

\* BasePage.getText(locator)
getText(locator) == utils_getText(locator)

\* BasePage.getAllTexts(locator)
getAllTexts(locator) == utils_getAllTexts(locator)

\* BasePage.getToastMessage()
getToastMessage ==
  <<WaitFor(toastMessage, "visible", WaitTicks), TextContent(toastMessage)>>

\* BasePage.waitForToastMessage(expectedText, timeout = 15000)
waitForToastMessage(expectedText) ==
  <<Filter(WaitFor(toastMessage, "visible", WaitTicks), expectedText)>>

\* verifyToastMessage without its expectation
verifyToastMessage_NoExpect(expectedText) == getToastMessage

\* BasePage.verifyToastMessage(expectedText)
verifyToastMessage(expectedText) ==
  getToastMessage \o <<ExpectToContain(expectedText)>>

\* BasePage.waitForToastToDisappear(timeout = 10000)
waitForToastToDisappear == Try(<<WaitFor(toastMessage, "hidden", WaitTicks)>>)

\* waitForTableToLoad with its wait inside try { } catch { }
waitForTableToLoad_Swallows ==
  Try(<<WaitFor(first(tableRows), "visible", WaitTicks)>>)

\* BasePage.waitForTableToLoad(timeout = 30000)
waitForTableToLoad == <<WaitFor(first(tableRows), "visible", WaitTicks)>>

\* navigate returning without the settle pause
navigate_NoSettle(env) ==
  navigateTo(env) \o <<WaitForLoadState("networkidle")>>

\* LoginPage.navigate()
navigate(env) ==
  navigateTo(env) \o <<WaitForLoadState("networkidle")>> \o <<WaitForTimeout(SettleTicks)>>

\* login clicking submit before it fills the password
login_ClickEarly(username, password) ==
  fill(usernameInput, username) \o click(loginButton)
    \o fill(passwordInput, password) \o waitForPageLoad

\* LoginPage.login(username, password)
login(username, password) ==
  fill(usernameInput, username) \o fill(passwordInput, password)
    \o click(loginButton) \o waitForPageLoad

\* verifyLoginPageDisplayed without the wait for the password input
verifyLoginPageDisplayed_SkipsPassword ==
  waitForVisible(usernameInput) \o waitForVisible(loginButton)

\* LoginPage.verifyLoginPageDisplayed()
verifyLoginPageDisplayed ==
  waitForVisible(usernameInput) \o waitForVisible(passwordInput)
    \o waitForVisible(loginButton)

\* clearForm clearing the username only
clearForm_OnlyUsername == clear(usernameInput)

\* LoginPage.clearForm()
clearForm == clear(usernameInput) \o clear(passwordInput)

\* The engine calls of the method o, in program order.
Body(o, env) ==
  CASE o.name = "navigate" -> navigate(env)
    [] o.name = "login" -> login(o.a1, o.a2)
    [] o.name = "verifyLoginPageDisplayed" -> verifyLoginPageDisplayed
    [] o.name = "clearForm" -> clearForm
    [] o.name = "fill" -> fill(o.a1, o.a2)
    [] o.name = "utils.click" -> utils_click(o.a1, o.highlight)
    [] o.name = "utils.fill" -> utils_fill(o.a1, o.a2, o.highlight)
    [] o.name = "type" -> type(o.a1, o.a2)
    [] o.name = "selectDropdown" -> selectDropdown(o.a1, o.a2)
    [] o.name = "waitForVisible" -> waitForVisible(o.a1)
    [] o.name = "waitForHidden" -> waitForHidden(o.a1)
    [] o.name = "waitForLoadingToComplete" -> waitForLoadingToComplete
    [] o.name = "getText" -> getText(o.a1)
    [] o.name = "getAllTexts" -> getAllTexts(o.a1)
    [] o.name = "getToastMessage" -> getToastMessage
    [] o.name = "waitForToastMessage" -> waitForToastMessage(o.expected)
    [] o.name = "verifyToastMessage" -> verifyToastMessage(o.expected)
    [] o.name = "waitForToastToDisappear" -> waitForToastToDisappear
    [] o.name = "waitForTableToLoad" -> waitForTableToLoad
    [] OTHER -> << >>

----------------------------------------------------------------------------
(* The test sessions.                                                      *)

\* Methods one test may call.
MaxOps == 2

\* testData/LoginTestData.json and the texts the tests type
Usernames == {"user1"}
Passwords == {"pass1", "badpass"}
ValidCredentials == {<<"user1", "pass1">>}

\* Values of TEST_ENV the sessions are started under.
EnvSamples ==
  {Undefined, Str(<<"u", "a", "t">>), Str(<<"h", "t", "t", "p", ":", "/", "/", "x">>)}

NoOp ==
  [name |-> "none", self |-> NoRef, a1 |-> "", a2 |-> "", highlight |-> TRUE,
   expected |-> NoText, ip |-> 1]
NoGot == [lpFirst |-> NoRef, lpLast |-> NoRef, cuFirst |-> NoRef, cuLast |-> NoRef]

InitSessions ==
  /\ heap = << >>
  /\ pom = [s \in Sessions |-> NoManager]
  /\ got = [s \in Sessions |-> NoGot]
  /\ dom = [s \in Sessions |-> [c \in Elements |-> "detached"]]
  /\ value = [s \in Sessions |-> [c \in Fields |-> ""]]
  /\ marked = [s \in Sessions |-> {}]
  /\ inline = [s \in Sessions |-> {}]
  /\ textContent = [s \in Sessions |-> [c \in TextElements |-> NoText]]
  /\ netBusy = [s \in Sessions |-> FALSE]
  /\ url = [s \in Sessions |-> NoUrl]
  /\ submitted = [s \in Sessions |-> "none"]
  /\ status = [s \in Sessions |-> "init"]
  /\ error = [s \in Sessions |-> "none"]
  /\ op = [s \in Sessions |-> NoOp]
  /\ elapsed = [s \in Sessions |-> 0]
  /\ log = [s \in Sessions |-> << >>]
  /\ seen = [s \in Sessions |-> {}]
  /\ together = [s \in Sessions |-> FALSE]
  /\ before = [s \in Sessions |-> [c \in Fields |-> ""]]
  /\ opsLeft = [s \in Sessions |-> MaxOps]

\* One worker; environment.ts has been loaded under some TEST_ENV.
Init ==
  /\ testEnv \in EnvSamples
  /\ CURRENT_ENV = Str(getEnvironmentUrl(testEnv))
  /\ bootEnv = testEnv
  /\ workers = {1}
  /\ InitSessions

\* The page the running method of session s drives: this.page of its object.
PageOf(s) == heap[op[s].self].page

\* Cur with the URL resolved from TEST_ENV at the time of the call
Cur_ResolvesAtCall(s) == Body(op[s], getEnvironmentUrl(testEnv))[op[s].ip]

\* The engine call the method of session s is at.
Cur(s) == Body(op[s], CURRENT_ENV.str)[op[s].ip]

Running(s) == status[s] = "running"
Alive(s) == s \in workers /\ (Running(s) \/ (status[s] = "idle" /\ opsLeft[s] > 0))

Visible(d) == {c \in Controls : d[c] = "visible"}

\* test.beforeEach: pom = new POManager(page)
NewPOManager(s) ==
  /\ s \in workers
  /\ status[s] = "init"
  /\ LET r == newPOManager(heap, s)
     IN  /\ heap' = r.heap
         /\ pom' = [pom EXCEPT ![s] = r.pom]
  /\ status' = [status EXCEPT ![s] = "idle"]
  /\ UNCHANGED <<envVars, workers, got, pageVars, error, op, elapsed, log,
                 opsLeft, histVars>>

\* the test evaluates pom.commonUtils
AccessCommonUtils(s) ==
  /\ s \in workers
  /\ status[s] = "idle"
  /\ opsLeft[s] > 0
  /\ LET r == commonUtilsGetter(heap, pom[s])
     IN  /\ heap' = r.heap
         /\ pom' = [pom EXCEPT ![s] = r.pom]
         /\ got' = [got EXCEPT ![s].cuLast = r.ref,
                               ![s].cuFirst = IF @ = NoRef THEN r.ref ELSE @]
  /\ opsLeft' = [opsLeft EXCEPT ![s] = @ - 1]
  /\ UNCHANGED <<envVars, workers, pageVars, status, error, op, elapsed, log,
                 histVars>>

\* The method o starts on the object the accessor result r handed out.
Start(s, r, o) ==
  /\ s \in workers
  /\ status[s] = "idle"
  /\ opsLeft[s] > 0
  /\ LET p == r.heap[r.ref].page
         name == o.name
         tracked == name = "verifyLoginPageDisplayed"
     IN  /\ heap' = r.heap
         /\ pom' = [pom EXCEPT ![s] = r.pom]
         /\ op' = [op EXCEPT ![s] = [o EXCEPT !.self = r.ref, !.ip = 1]]
         /\ seen' = [seen EXCEPT ![p] = IF tracked THEN Visible(dom[p]) ELSE {}]
         /\ together' = [together EXCEPT ![p] = tracked /\ Visible(dom[p]) = Controls]
         /\ before' = [before EXCEPT ![p] =
              IF name = "clearForm" THEN value[p] ELSE [c \in Fields |-> ""]]
  /\ status' = [status EXCEPT ![s] = "running"]
  /\ elapsed' = [elapsed EXCEPT ![s] = 0]
  /\ log' = [log EXCEPT ![s] = << >>]
  /\ opsLeft' = [opsLeft EXCEPT ![s] = @ - 1]
  /\ UNCHANGED <<envVars, workers, pageVars, error>>

\* the test evaluates pom.loginPage.<method o>: the accessor, then the call
CallOn(s, o) ==
  LET r == loginPageGetter(heap, pom[s])
  IN  /\ Start(s, r, o)
      /\ got' = [got EXCEPT ![s].lpLast = r.ref,
                            ![s].lpFirst = IF @ = NoRef THEN r.ref ELSE @]

Call(s, name, a1, a2) == CallOn(s, [NoOp EXCEPT !.name = name, !.a1 = a1, !.a2 = a2])

\* the test evaluates pom.commonUtils.<method o>: the accessor, then the call
CallUtils(s, o) ==
  LET r == commonUtilsGetter(heap, pom[s])
  IN  /\ Start(s, r, o)
      /\ got' = [got EXCEPT ![s].cuLast = r.ref,
                            ![s].cuFirst = IF @ = NoRef THEN r.ref ELSE @]

CallNavigate(s) == Call(s, "navigate", "", "")

CallLogin(s) ==
  \E u \in Usernames, p \in Passwords : Call(s, "login", u, p)

CallVerifyLoginPageDisplayed(s) == Call(s, "verifyLoginPageDisplayed", "", "")

CallClearForm(s) == Call(s, "clearForm", "", "")

CallFill(s) ==
  \/ \E t \in Usernames : Call(s, "fill", usernameInput, t)
  \/ \E t \in Passwords : Call(s, "fill", passwordInput, t)

----------------------------------------------------------------------------
(* The browser automation engine executing the calls of a method.          *)

\* s contains e as a substring
Contains(s, e) ==
  \E i \in 0..(Len(s) - Len(e)) : SubSeq(s, i + 1, i + Len(e)) = e

\* new RegExp(e, 'i') matches s (e holds no special character)
Matches(s, e) == Contains(toUpperCase(s), toUpperCase(e))

\* The attached elements of page p the locator of call k matches, in
\* document order.
Matched(p, k) ==
  LET attached(e) == dom[p][e] # "detached"
      rows == SelectSeq(Rows, attached)
  IN  CASE k.target = tableRows -> rows
        [] k.target = first(tableRows) ->
             IF rows = << >> THEN << >> ELSE <<rows[1]>>
        [] k.target \in TextElements ->
             IF /\ attached(k.target)
                /\ k.call = "waitFor" => Matches(textContent[p][k.target], k.hasText)
             THEN <<k.target>> ELSE << >>
        [] k.target \in Elements -> IF attached(k.target) THEN <<k.target>> ELSE << >>
        [] OTHER -> << >>

\* The state of the element call k resolves its locator to.
StateOf(p, k) ==
  IF Matched(p, k) = << >> THEN "detached" ELSE dom[p][Matched(p, k)[1]]

\* Ready with a wait for "visible" that an attached, hidden element satisfies
Ready_AttachedIsEnough(s, k) ==
  LET st == StateOf(PageOf(s), k)
      p == PageOf(s)
  IN  CASE k.call \in {"evaluate", "textContent"} -> st # "detached"
        [] k.call = "waitFor" ->
             IF k.state = "visible" THEN st # "detached" ELSE st # "visible"
        [] k.call \in {"fill", "click", "clear", "type", "selectOption"} ->
             st = "visible"
        [] k.call \in {"allTextContents", "expect"} -> TRUE
        [] k.call = "goto" -> TRUE
        [] k.call = "waitForLoadState" ->
             IF k.state = "networkidle" THEN ~netBusy[p] ELSE TRUE
        [] k.call = "waitForTimeout" -> elapsed[s] >= k.ticks
        [] OTHER -> FALSE

\* The condition an engine call waits for.
Ready(s, k) ==
  LET st == StateOf(PageOf(s), k)
      p == PageOf(s)
  IN  CASE k.call \in {"evaluate", "textContent"} -> st # "detached"
        [] k.call = "waitFor" ->
             IF k.state = "visible" THEN st = "visible" ELSE st # "visible"
        [] k.call \in {"fill", "click", "clear", "type", "selectOption"} ->
             st = "visible"
        [] k.call \in {"allTextContents", "expect"} -> TRUE
        [] k.call = "goto" -> TRUE
        [] k.call = "waitForLoadState" ->
             IF k.state = "networkidle" THEN ~netBusy[p] ELSE TRUE
        [] k.call = "waitForTimeout" -> elapsed[s] >= k.ticks
        [] OTHER -> FALSE

\* The texts a read returns: of the element for textContent, of every
\* matched element for allTextContents; for a wait, the text the element it
\* resolved to showed when the wait ended.
Read(p, k) ==
  LET m == Matched(p, k)
  IN  CASE k.call = "textContent" -> <<textContent[p][m[1]]>>
        [] k.call = "waitFor" /\ k.target \in TextElements /\ m # << >> ->
             <<textContent[p][m[1]]>>
        [] k.call = "allTextContents" -> [i \in 1..Len(m) |-> textContent[p][m[i]]]
        [] OTHER -> << >>

\* What the log keeps of a completed call: the call, for a pause the time it
\* took, for a wait the state its target was in when the wait ended, and for
\* a read the texts read.
Entry(s, k) ==
  [call |-> k,
   waited |-> IF k.call = "waitForTimeout" THEN elapsed[s] ELSE 0,
   target |-> IF k.call = "waitFor" THEN StateOf(PageOf(s), k) ELSE "",
   read |-> Read(PageOf(s), k)]

\* The engine call of session s completes and the method goes on.
Complete(s) ==
  LET k == Cur(s)
      last == op[s].ip = Len(Body(op[s], CURRENT_ENV.str))
  IN  /\ log' = [log EXCEPT ![s] = Append(@, Entry(s, k))]
      /\ op' = [op EXCEPT ![s].ip = @ + 1]
      /\ elapsed' = [elapsed EXCEPT ![s] = 0]
      /\ status' = [status EXCEPT ![s] = IF last THEN "idle" ELSE "running"]
      /\ UNCHANGED <<envVars, workers, pomVars, error, opsLeft, histVars>>

\* locator.evaluate(el => el.style...)
EngineEvaluate(s) ==
  /\ Running(s) /\ Cur(s).call = "evaluate" /\ Ready(s, Cur(s))
  /\ marked' = [marked EXCEPT ![PageOf(s)] =
                  IF Cur(s).text = "mark" THEN @ \cup {Cur(s).target}
                                          ELSE @ \ {Cur(s).target}]
  /\ Complete(s)
  /\ inline' = [inline EXCEPT ![PageOf(s)] = @ \ {Cur(s).target}]
  /\ UNCHANGED <<dom, value, textContent, netBusy, url, submitted>>

\* locator.waitFor({ state, timeout })
EngineWaitFor(s) ==
  /\ Running(s) /\ Cur(s).call = "waitFor" /\ Ready(s, Cur(s))
  /\ Complete(s)
  /\ UNCHANGED pageVars

\* locator.fill(text)
EngineFill(s) ==
  /\ Running(s) /\ Cur(s).call = "fill" /\ Ready(s, Cur(s))
  /\ value' = [value EXCEPT ![PageOf(s)][Cur(s).target] = Cur(s).text]
  /\ Complete(s)
  /\ UNCHANGED <<dom, marked, inline, textContent, netBusy, url, submitted>>

\* locator.clear()
EngineClear(s) ==
  /\ Running(s) /\ Cur(s).call = "clear" /\ Ready(s, Cur(s))
  /\ value' = [value EXCEPT ![PageOf(s)][Cur(s).target] = ""]
  /\ Complete(s)
  /\ UNCHANGED <<dom, marked, inline, textContent, netBusy, url, submitted>>

\* locator.click(): the submit control posts the form
EngineClick(s) ==
  /\ Running(s) /\ Cur(s).call = "click" /\ Ready(s, Cur(s))
  /\ LET p == PageOf(s)
     IN  /\ netBusy' = [netBusy EXCEPT ![p] = TRUE]
         /\ submitted' = [submitted EXCEPT ![p] =
              IF <<value[p][usernameInput], value[p][passwordInput]>>
                   \in ValidCredentials
              THEN "accepted" ELSE "rejected"]
  /\ Complete(s)
  /\ UNCHANGED <<dom, value, marked, inline, textContent, url>>

\* locator.type(text, { delay }): the keys are added to the field's value
EngineType(s) ==
  /\ Running(s) /\ Cur(s).call = "type" /\ Ready(s, Cur(s))
  /\ value' = [value EXCEPT ![PageOf(s)][Cur(s).target] = @ \o Cur(s).text]
  /\ Complete(s)
  /\ UNCHANGED <<dom, marked, inline, textContent, netBusy, url, submitted>>

\* locator.selectOption(value)
EngineSelectOption(s) ==
  /\ Running(s) /\ Cur(s).call = "selectOption" /\ Ready(s, Cur(s))
  /\ value' = [value EXCEPT ![PageOf(s)][Cur(s).target] = Cur(s).text]
  /\ Complete(s)
  /\ UNCHANGED <<dom, marked, inline, textContent, netBusy, url, submitted>>

\* locator.textContent()
EngineTextContent(s) ==
  /\ Running(s) /\ Cur(s).call = "textContent" /\ Ready(s, Cur(s))
  /\ Complete(s)
  /\ UNCHANGED pageVars

\* locator.allTextContents()
EngineAllTextContents(s) ==
  /\ Running(s) /\ Cur(s).call = "allTextContents" /\ Ready(s, Cur(s))
  /\ Complete(s)
  /\ UNCHANGED pageVars

\* The value the method holds: what its last read returned, '' for none.
Message(s) ==
  LET reads == SelectSeq(log[s], LAMBDA e : e.call.call = "textContent")
  IN  IF reads = << >> THEN NoText ELSE reads[Len(reads)].read[1]

\* expect(message).toContain(expectedText) holds
EngineExpectPass(s) ==
  /\ Running(s) /\ Cur(s).call = "expect"
  /\ Contains(Message(s), Cur(s).hasText)
  /\ Complete(s)
  /\ UNCHANGED pageVars

\* expect(message).toContain(expectedText) throws; no method catches it
EngineExpectFail(s) ==
  /\ Running(s) /\ Cur(s).call = "expect"
  /\ ~Contains(Message(s), Cur(s).hasText)
  /\ status' = [status EXCEPT ![s] = "failed"]
  /\ error' = [error EXCEPT ![s] = "AssertionError"]
  /\ UNCHANGED <<envVars, workers, pomVars, pageVars, op, elapsed, log, opsLeft,
                 histVars>>

\* page.goto(url, { waitUntil }): a new document, still loading its resources
EngineGoto(s) ==
  /\ Running(s) /\ Cur(s).call = "goto" /\ Ready(s, Cur(s))
  /\ LET p == PageOf(s)
     IN  /\ url' = [url EXCEPT ![p] = Cur(s).url]
         /\ dom' = [dom EXCEPT ![p] = [c \in Elements |-> "detached"]]
         /\ value' = [value EXCEPT ![p] = [c \in Fields |-> ""]]
         /\ marked' = [marked EXCEPT ![p] = {}]
         /\ inline' = [inline EXCEPT ![p] = {}]
         /\ textContent' = [textContent EXCEPT ![p] = [c \in TextElements |-> NoText]]
         /\ netBusy' = [netBusy EXCEPT ![p] = TRUE]
         /\ submitted' = [submitted EXCEPT ![p] = "none"]
  /\ Complete(s)

\* page.waitForLoadState(state)
EngineWaitForLoadState(s) ==
  /\ Running(s) /\ Cur(s).call = "waitForLoadState" /\ Ready(s, Cur(s))
  /\ Complete(s)
  /\ UNCHANGED pageVars

\* page.waitForTimeout(ms)
EngineWaitForTimeout(s) ==
  /\ Running(s) /\ Cur(s).call = "waitForTimeout" /\ Ready(s, Cur(s))
  /\ Complete(s)
  /\ UNCHANGED pageVars

\* a timeout after which the method goes on with its next call
EngineTimeout_Skips(s) ==
  /\ Running(s) /\ Cur(s).call # "waitForTimeout"
  /\ ~Ready(s, Cur(s))
  /\ elapsed[s] >= Cur(s).ticks
  /\ op' = [op EXCEPT ![s].ip = @ + 1]
  /\ elapsed' = [elapsed EXCEPT ![s] = 0]
  /\ status' = [status EXCEPT ![s] =
       IF op[s].ip = Len(Body(op[s], CURRENT_ENV.str)) THEN "idle" ELSE "running"]
  /\ UNCHANGED <<envVars, workers, pomVars, pageVars, error, log, opsLeft,
                 histVars>>

\* The bound of the current call passes unmet: TimeoutError; when no try block
\* is around the call the test fails.
EngineTimeout(s) ==
  /\ Running(s) /\ Cur(s).call # "waitForTimeout"
  /\ ~Cur(s).try
  /\ ~Ready(s, Cur(s))
  /\ elapsed[s] >= Cur(s).ticks
  /\ status' = [status EXCEPT ![s] = "failed"]
  /\ error' = [error EXCEPT ![s] = "TimeoutError"]
  /\ UNCHANGED <<envVars, workers, pomVars, pageVars, op, elapsed, log, opsLeft,
                 histVars>>

\* The bound of a call inside try { } catch { } passes unmet: the error is
\* dropped and the method goes on after the catch block.
EngineTimeoutCaught(s) ==
  /\ Running(s) /\ Cur(s).call # "waitForTimeout"
  /\ Cur(s).try
  /\ ~Ready(s, Cur(s))
  /\ elapsed[s] >= Cur(s).ticks
  /\ Complete(s)
  /\ UNCHANGED pageVars

\* Time passes for the call session s is waiting in.
Tick(s) ==
  /\ Running(s)
  /\ elapsed[s] < Cur(s).ticks
  /\ elapsed' = [elapsed EXCEPT ![s] = @ + 1]
  /\ UNCHANGED <<envVars, workers, pomVars, pageVars, status, error, op, log,
                 opsLeft, histVars>>

----------------------------------------------------------------------------
(* The application under test, seen from the page.                         *)

Tracked(p) ==
  \E s \in workers : Running(s) /\ PageOf(s) = p
                     /\ op[s].name = "verifyLoginPageDisplayed"

\* The application renders, shows, hides or removes a control.
DomChange(p) ==
  /\ Alive(p)
  /\ \E c \in Controls, st \in {"detached", "hidden", "visible"} :
       /\ dom[p][c] # st
       /\ dom' = [dom EXCEPT ![p][c] = st]
       /\ marked' = [marked EXCEPT ![p] = IF st = "detached" THEN @ \ {c} ELSE @]
       /\ value' = [value EXCEPT ![p] =
            IF st = "detached" /\ c \in Inputs THEN [@ EXCEPT ![c] = ""] ELSE @]
  /\ seen' = [seen EXCEPT ![p] = IF Tracked(p) THEN @ \cup Visible(dom'[p]) ELSE @]
  /\ together' = [together EXCEPT ![p] =
       IF Tracked(p) THEN @ \/ Visible(dom'[p]) = Controls ELSE @]
  /\ UNCHANGED <<envVars, workers, pomVars, inline, textContent, netBusy, url, submitted,
                 runVars, before>>

\* The requests in flight end.
NetworkIdle(p) ==
  /\ Alive(p)
  /\ netBusy[p]
  /\ netBusy' = [netBusy EXCEPT ![p] = FALSE]
  /\ UNCHANGED <<envVars, workers, pomVars, dom, value, marked, inline, textContent, url,
                 submitted, runVars, histVars>>

\* What the application may show in a toast or a table row, and what the
\* tests look for.
Texts == {<<"o", "k">>, <<"n", "o">>}
ExpectedTexts == {<<"o", "k">>, <<"O", "K">>}
Options == {"25"}

\* The elements the locators of method o can match.
Targets(o) ==
  LET body == Body(o, NoUrl)
  IN  UNION {IF body[i].target \in {tableRows, first(tableRows)}
             THEN {Rows[j] : j \in DOMAIN Rows}
             ELSE {body[i].target} \cap Elements : i \in DOMAIN body}

\* The application renders (with its text), shows, hides or removes an
\* element the method of session p addresses.
Change(p) ==
  /\ p \in workers /\ PageOf(p) = p
  /\ \E e \in Targets(op[p]), st \in {"detached", "hidden", "visible"} :
       /\ dom[p][e] # st
       /\ dom' = [dom EXCEPT ![p][e] = st]
       /\ marked' = [marked EXCEPT ![p] = IF st = "detached" THEN @ \ {e} ELSE @]
       /\ inline' = [inline EXCEPT ![p] = IF st = "detached" THEN @ \ {e} ELSE @]
       /\ value' = [value EXCEPT ![p] =
            IF st = "detached" /\ e \in Fields THEN [@ EXCEPT ![e] = ""] ELSE @]
       /\ IF e \in TextElements /\ st = "detached"
          THEN textContent' = [textContent EXCEPT ![p][e] = NoText]
          ELSE IF e \in TextElements /\ dom[p][e] = "detached"
          THEN \E t \in Texts : textContent' = [textContent EXCEPT ![p][e] = t]
          ELSE UNCHANGED textContent
  /\ UNCHANGED <<envVars, workers, pomVars, netBusy, url, submitted, runVars,
                 histVars>>

\* the page changes while the method runs
ElementChange(p) == Running(p) /\ Change(p)

\* the page changes after the method has returned
LateChange(p) == status[p] = "idle" /\ op[p] # NoOp /\ Change(p)

Next ==
  \E s \in Sessions :
    \/ NewPOManager(s)
    \/ AccessCommonUtils(s)
    \/ CallNavigate(s)
    \/ CallLogin(s)
    \/ CallVerifyLoginPageDisplayed(s)
    \/ CallClearForm(s)
    \/ CallFill(s)
    \/ EngineEvaluate(s)
    \/ EngineWaitFor(s)
    \/ EngineFill(s)
    \/ EngineClear(s)
    \/ EngineClick(s)
    \/ EngineGoto(s)
    \/ EngineWaitForLoadState(s)
    \/ EngineWaitForTimeout(s)
    \/ EngineTimeout(s)
    \/ Tick(s)
    \/ DomChange(s)
    \/ NetworkIdle(s)

Spec == Init /\ [][Next]_vars

----------------------------------------------------------------------------
(* Process start: environment.ts is evaluated once.                        *)

InitEnv ==
  /\ \/ testEnv = Undefined
     \/ \E k \in 0..MaxLen : \E p \in [1..k -> Alphabet] : testEnv = Str(p)
     \/ \E p \in [1..Len(HTTP) -> SchemeAlphabet] : testEnv = Str(p \o UrlTail)
  /\ CURRENT_ENV = Undefined
  /\ bootEnv = Undefined
  /\ workers = {}
  /\ InitSessions

\* export const CURRENT_ENV = getEnvironmentUrl();
LoadEnvironment ==
  /\ ~CURRENT_ENV.defined
  /\ CURRENT_ENV' = Str(getEnvironmentUrl(testEnv))
  /\ bootEnv' = testEnv
  /\ UNCHANGED <<testEnv, workers, pomVars, pageVars, runVars, histVars>>

NextEnv == LoadEnvironment

SpecEnv == InitEnv /\ [][NextEnv]_vars

----------------------------------------------------------------------------
(* Properties of the environment resolver, checked under SpecEnv.          *)

Loaded == CURRENT_ENV.defined

\* C1: an override that equals QAT, UAT or PROD in any mix of letter case
\* resolves to exactly the URL ENV maps that name to: not to the override
\* itself and, for UAT and PROD, not to the default.
C1_KnownNameGivesMappedUrl ==
  \A k \in DOMAIN ENV :
    (Loaded /\ bootEnv.defined /\ toUpperCase(bootEnv.str) = k)
      => /\ CURRENT_ENV.str = ENV[k]
         /\ CURRENT_ENV.str # bootEnv.str
         /\ (k # QAT => CURRENT_ENV.str # ENV[QAT])

C1_Witness ==
  /\ Loaded
  /\ bootEnv = Str(<<"u", "A", "t">>)
  /\ CURRENT_ENV = Str(UAT_URL)

\* An absolute URL: a string that begins with the http/https scheme prefix,
\* in whatever letter case it is written.
IsAbsoluteUrl(s) == startsWithAnyCase(s, HTTP)

\* C2: an override that is an absolute URL, in whatever letter case, is
\* returned unchanged, character for character.
C2_AbsoluteUrlReturnedUnchanged ==
  (Loaded /\ bootEnv.defined /\ IsAbsoluteUrl(bootEnv.str))
    => CURRENT_ENV.str = bootEnv.str

\* C3: an override that is unset, empty, or neither a known name nor an
\* absolute URL resolves to the QAT URL, and loading raises nothing.
C3_UnrecognizedGivesDefault ==
  (/\ Loaded
   /\ \/ ~bootEnv.defined
      \/ bootEnv.str = << >>
      \/ /\ toUpperCase(bootEnv.str) \notin DOMAIN ENV
         /\ ~IsAbsoluteUrl(bootEnv.str))
    => /\ CURRENT_ENV.str = QAT_URL
       /\ \A s \in Sessions : error[s] = "none"

C3_Witness ==
  /\ Loaded
  /\ bootEnv = Str(<<"p", "r", "o">>)
  /\ CURRENT_ENV = Str(QAT_URL)

----------------------------------------------------------------------------
(* Properties of the page object manager, checked under Spec.              *)

ObjectsOf(cls, page) ==
  {i \in DOMAIN heap : heap[i].type = cls /\ heap[i].page = page}

\* C4: on one manager every access of loginPage (and of commonUtils) returns
\* the object the first access returned, the manager still holds that object,
\* and no access has added a page object to those the constructor made.
C4_AccessorReturnsCachedObject ==
  \A s \in Sessions :
    /\ got[s].lpFirst # NoRef =>
         /\ got[s].lpLast = got[s].lpFirst
         /\ pom[s]._loginPage = got[s].lpFirst
         /\ Cardinality(ObjectsOf("LoginPage", s)) = 1
    /\ got[s].cuFirst # NoRef =>
         /\ got[s].cuLast = got[s].cuFirst
         /\ pom[s]._commonUtils = got[s].cuFirst
         /\ Cardinality(ObjectsOf("CommonUtils", s)) = 2

\* the loginPage accessor has been evaluated twice
C4_Witness ==
  /\ got[1].lpLast # NoRef
  /\ got[1].cuLast = NoRef
  /\ opsLeft[1] = MaxOps - 2
  /\ status[1] = "idle"

\* C5: between the construction of a manager and the first access of its
\* loginPage accessor no LoginPage has been constructed for it.
C5_NoLoginPageBeforeFirstAccess ==
  \A s \in Sessions :
    (pom[s].made /\ got[s].lpFirst = NoRef) => ObjectsOf("LoginPage", s) = {}

----------------------------------------------------------------------------
(* Properties of the login page object, checked under Spec.                *)

\* The method name, called by session s, has returned normally.
Returned(s, name) == op[s].name = name /\ status[s] = "idle"

\* C6: after clearForm returns, the username and the password field are
\* both empty, whatever they held when it was called.
C6_ClearFormEmptiesBothFields ==
  \A s \in Sessions :
    Returned(s, "clearForm") =>
      \A c \in Inputs : value[PageOf(s)][c] = ""

\* clearForm has returned and both fields held text written by fill
C6_Witness ==
  /\ Returned(1, "clearForm")
  /\ before[1][usernameInput] = "user1"
  /\ before[1][passwordInput] = "badpass"
  /\ \A c \in Inputs : value[1][c] = ""

\* C7 as stated: verifyLoginPageDisplayed returns only if at some moment of
\* the call all three controls were visible at once.
C7_SucceedsOnlyIfVisibleTogether ==
  \A s \in Sessions :
    Returned(s, "verifyLoginPageDisplayed") => together[PageOf(s)]

VerifiedControls == <<usernameInput, passwordInput, loginButton>>

\* C7 as amended: verifyLoginPageDisplayed returns only if each of the three
\* controls, in the order username, password, submit, was visible at the
\* moment its own wait ended.
C7_SucceedsOnlyIfEachSeenInTurn ==
  \A s \in Sessions :
    Returned(s, "verifyLoginPageDisplayed") =>
      /\ Len(log[s]) = Len(VerifiedControls)
      /\ \A i \in 1..Len(VerifiedControls) :
           /\ log[s][i].call = WaitFor(VerifiedControls[i], "visible", WaitTicks)
           /\ log[s][i].target = "visible"

\* verifyLoginPageDisplayed has returned although the three controls were
\* never visible at one moment
C7_Witness ==
  /\ Returned(1, "verifyLoginPageDisplayed")
  /\ seen[1] = Controls
  /\ ~together[1]

\* C8: if one of the three controls was never visible during
\* verifyLoginPageDisplayed, whichever it is, the call does not return
\* normally: it ends with a TimeoutError.
C8_MissingControlTimesOut ==
  \A s \in Sessions :
    (/\ op[s].name = "verifyLoginPageDisplayed"
     /\ status[s] # "running"
     /\ seen[PageOf(s)] # Controls)
      => /\ status[s] = "failed"
         /\ error[s] = "TimeoutError"

\* the password input was never visible and the call timed out
C8_Witness ==
  /\ op[1].name = "verifyLoginPageDisplayed"
  /\ status[1] = "failed"
  /\ error[1] = "TimeoutError"
  /\ seen[1] = Controls \ {passwordInput}

IsPrefix(a, b) == Len(a) <= Len(b) /\ SubSeq(b, 1, Len(a)) = a

CallsOf(l) == [i \in 1..Len(l) |-> l[i].call]

IsLoginStep(e) == e.call.call \in {"fill", "click", "waitForLoadState"}

LoginSteps(s) ==
  <<LocatorFill(usernameInput, op[s].a1), LocatorFill(passwordInput, op[s].a2),
    LocatorClick(loginButton), WaitForLoadState("networkidle")>>

\* C9: the steps login has done are always an initial part of: fill username,
\* fill password, click submit, wait for network-idle; it has returned
\* normally exactly when all four are done, whether the application accepted
\* the credentials or not.
C9_LoginStepsInOrder ==
  \A s \in Sessions :
    op[s].name = "login" =>
      LET done == CallsOf(SelectSeq(log[s], IsLoginStep))
      IN  /\ IsPrefix(done, LoginSteps(s))
          /\ Returned(s, "login") <=> done = LoginSteps(s)
          /\ Returned(s, "login") => error[s] = "none"

\* login has returned normally with credentials the application rejected
C9_Witness ==
  /\ Returned(1, "login")
  /\ op[1].a2 = "badpass"
  /\ submitted[1] = "rejected"

NavigateSteps ==
  <<Goto(getEnvironmentUrl(bootEnv), "domcontentloaded"),
    WaitForLoadState("networkidle"), WaitForTimeout(SettleTicks)>>

\* C10: the calls navigate has made are always an initial part of: load the
\* URL the resolver returned at start-up, waiting for DOM-ready; wait for
\* network-idle; pause for the settle delay. It has returned only when all
\* three are done and the pause lasted the whole settle delay.
C10_NavigateStepsInOrder ==
  \A s \in Sessions :
    op[s].name = "navigate" =>
      /\ IsPrefix(CallsOf(log[s]), NavigateSteps)
      /\ Len(log[s]) >= 1 => url[PageOf(s)] = getEnvironmentUrl(bootEnv)
      /\ Returned(s, "navigate") =>
           /\ CallsOf(log[s]) = NavigateSteps
           /\ log[s][3].waited >= SettleTicks

\* navigate has returned after loading the UAT URL
C10_Witness ==
  /\ Returned(1, "navigate")
  /\ bootEnv = Str(<<"u", "a", "t">>)
  /\ url[1] = UAT_URL

----------------------------------------------------------------------------
(* One process from its start: environment.ts is loaded, then two tests    *)
(* navigate while TEST_ENV may be reassigned.                               *)

InitProcess ==
  /\ testEnv \in EnvSamples
  /\ CURRENT_ENV = Undefined
  /\ bootEnv = Undefined
  /\ workers = Sessions
  /\ InitSessions

\* process.env.TEST_ENV is assigned after start-up
SetTestEnv ==
  /\ CURRENT_ENV.defined
  /\ \E e \in EnvSamples :
       /\ e # testEnv
       /\ testEnv' = e
  /\ UNCHANGED <<CURRENT_ENV, bootEnv, workers, pomVars, pageVars, runVars,
                 histVars>>

\* a test starts: its file has imported CURRENT_ENV
StartTest(s) ==
  /\ CURRENT_ENV.defined
  /\ NewPOManager(s)

NextProcess ==
  \/ LoadEnvironment
  \/ SetTestEnv
  \/ \E s \in Sessions :
       \/ StartTest(s)
       \/ CallNavigate(s)
       \/ EngineGoto(s)
       \/ EngineWaitForLoadState(s)
       \/ EngineWaitForTimeout(s)
       \/ EngineTimeout(s)
       \/ Tick(s)
       \/ NetworkIdle(s)

SpecProcess == InitProcess /\ [][NextProcess]_vars

\* C11: once environment.ts is loaded, CURRENT_ENV is the URL resolved from
\* TEST_ENV as it was at that moment, whatever TEST_ENV is now, and every
\* page that navigate has loaded, in either session, shows that URL.
C11_ResolvedOnceAtStart ==
  CURRENT_ENV.defined =>
    /\ CURRENT_ENV.str = getEnvironmentUrl(bootEnv)
    /\ \A s \in Sessions :
         url[s] # NoUrl => url[s] = getEnvironmentUrl(bootEnv)

\* both sessions have navigated to the start-up URL although TEST_ENV now
\* resolves to another one
C11_Witness ==
  /\ bootEnv = Str(<<"u", "a", "t">>)
  /\ testEnv = Undefined
  /\ \A s \in Sessions : Returned(s, "navigate") /\ url[s] = UAT_URL

----------------------------------------------------------------------------
(* The primitives of CommonUtils and BasePage, called one at a time.       *)

CallUtilsClick(s) ==
  \E hl \in BOOLEAN :
    CallUtils(s, [NoOp EXCEPT !.name = "utils.click", !.a1 = loginButton,
                              !.highlight = hl])

CallUtilsFill(s) ==
  \E t \in Usernames, hl \in BOOLEAN :
    CallUtils(s, [NoOp EXCEPT !.name = "utils.fill", !.a1 = usernameInput,
                              !.a2 = t, !.highlight = hl])

CallType(s) == \E t \in Usernames : Call(s, "type", usernameInput, t)

CallSelectDropdown(s) ==
  \E v \in Options : Call(s, "selectDropdown", itemsPerPageDropdown, v)

CallWaitForVisible(s) == Call(s, "waitForVisible", loginButton, "")

CallWaitForHidden(s) == Call(s, "waitForHidden", loadingSpinner, "")

CallWaitForLoadingToComplete(s) == Call(s, "waitForLoadingToComplete", "", "")

CallGetText(s) == Call(s, "getText", toastMessage, "")

CallGetAllTexts(s) == Call(s, "getAllTexts", tableRows, "")

CallGetToastMessage(s) == Call(s, "getToastMessage", "", "")

CallWaitForToastMessage(s) ==
  \E e \in ExpectedTexts :
    CallOn(s, [NoOp EXCEPT !.name = "waitForToastMessage", !.expected = e])

CallVerifyToastMessage(s) ==
  \E e \in ExpectedTexts :
    CallOn(s, [NoOp EXCEPT !.name = "verifyToastMessage", !.expected = e])

CallWaitForToastToDisappear(s) == Call(s, "waitForToastToDisappear", "", "")

CallWaitForTableToLoad(s) == Call(s, "waitForTableToLoad", "", "")

NextPrimitives ==
  \E s \in Sessions :
    \/ NewPOManager(s)
    \/ CallUtilsClick(s)
    \/ CallUtilsFill(s)
    \/ CallType(s)
    \/ CallSelectDropdown(s)
    \/ CallWaitForVisible(s)
    \/ CallWaitForHidden(s)
    \/ CallWaitForLoadingToComplete(s)
    \/ CallGetText(s)
    \/ CallGetAllTexts(s)
    \/ CallGetToastMessage(s)
    \/ CallWaitForToastMessage(s)
    \/ CallVerifyToastMessage(s)
    \/ CallWaitForToastToDisappear(s)
    \/ CallWaitForTableToLoad(s)
    \/ EngineEvaluate(s)
    \/ EngineWaitFor(s)
    \/ EngineFill(s)
    \/ EngineClick(s)
    \/ EngineType(s)
    \/ EngineSelectOption(s)
    \/ EngineTextContent(s)
    \/ EngineAllTextContents(s)
    \/ EngineExpectPass(s)
    \/ EngineExpectFail(s)
    \/ EngineWaitForTimeout(s)
    \/ EngineTimeout(s)
    \/ EngineTimeoutCaught(s)
    \/ Tick(s)
    \/ ElementChange(s)

SpecPrimitives == Init /\ [][NextPrimitives]_vars

----------------------------------------------------------------------------
(* Properties of the primitives, checked under SpecPrimitives.             *)

InteractionOps == {"utils.click", "utils.fill", "type", "selectDropdown"}
ActionCalls == {"click", "fill", "type", "selectOption"}

Actions(s) == {i \in DOMAIN log[s] : log[s][i].call.call \in ActionCalls}

\* C12: click, fill, type and selectOption act on their element only right
\* after a bounded wait has observed it visible; an operation that fails has
\* failed with TimeoutError and has not acted on the element; one that has
\* returned has acted, once.
C12_ActsOnlyOnceSeenVisible ==
  \A s \in Sessions :
    op[s].name \in InteractionOps =>
      /\ \A i \in Actions(s) :
           /\ i > 1
           /\ log[s][i - 1].call = WaitFor(op[s].a1, "visible", WaitTicks)
           /\ log[s][i - 1].target = "visible"
           /\ log[s][i].call.target = op[s].a1
      /\ status[s] = "failed" => error[s] = "TimeoutError" /\ Actions(s) = {}
      /\ status[s] = "idle" => Cardinality(Actions(s)) = 1

\* a highlighted click on a button that was attached but never visible
C12_Witness ==
  /\ op[1].name = "utils.click" /\ op[1].highlight
  /\ status[1] = "failed" /\ error[1] = "TimeoutError"
  /\ Len(log[1]) = 3
  /\ submitted[1] = "none"

SwallowingOps == {"waitForLoadingToComplete", "waitForToastToDisappear"}

\* the wait of log entry e ended with its condition met
Met(e) ==
  IF e.call.state = "visible" THEN e.target = "visible" ELSE e.target # "visible"

\* C13: waitForLoadingToComplete and waitForToastToDisappear never fail: they
\* return also when the element is still visible at the timeout; no other
\* operation goes on past a wait whose condition was not met, it fails with
\* the TimeoutError instead.
C13_OnlyTwoWaitsSwallowTimeout ==
  \A s \in Sessions :
    /\ op[s].name \in SwallowingOps => status[s] # "failed"
    /\ op[s].name \notin SwallowingOps =>
         /\ \A i \in DOMAIN log[s] :
              log[s][i].call.call = "waitFor" => Met(log[s][i])
         /\ status[s] = "failed" /\ Cur(s).call = "waitFor" =>
              error[s] = "TimeoutError" /\ ~Ready(s, Cur(s))

\* waitForLoadingToComplete has returned with the spinner still visible
C13_Witness ==
  /\ Returned(1, "waitForLoadingToComplete")
  /\ log[1][1].target = "visible"
  /\ dom[1][loadingSpinner] = "visible"

Finished(s, name) == op[s].name = name /\ status[s] \in {"idle", "failed"}

\* the wait of verifyToastMessage has observed a visible toast
ToastObserved(s) == Len(log[s]) >= 1 /\ log[s][1].target = "visible"

\* C14 as stated: verifyToastMessage returns exactly when its wait observed a
\* visible toast whose text contains expectedText, and raises an assertion
\* failure when that toast's text does not contain it.
C14_ReturnsIffVisibleToastContains ==
  \A s \in Sessions :
    Finished(s, "verifyToastMessage") =>
      /\ status[s] = "idle" <=>
           ToastObserved(s) /\ Contains(log[s][1].read[1], op[s].expected)
      /\ ToastObserved(s) /\ ~Contains(log[s][1].read[1], op[s].expected) =>
           error[s] = "AssertionError"

\* C14: verifyToastMessage returns exactly when its wait observed a visible
\* toast and the text read from the toast afterwards contains expectedText;
\* when the text read does not contain it the test fails with an assertion
\* failure; when no toast is visible within the bound, or the toast is gone
\* before its text is read, it fails with TimeoutError.  Nothing is retried.
C14_ReturnsIffTextReadContains ==
  \A s \in Sessions :
    Finished(s, "verifyToastMessage") =>
      LET n == Len(log[s])
          got2 == n >= 2 /\ Contains(log[s][2].read[1], op[s].expected)
      IN  /\ status[s] = "idle" <=> ToastObserved(s) /\ got2
          /\ error[s] = "AssertionError" <=> n = 2 /\ ~got2
          /\ error[s] = "TimeoutError" <=> n < 2
          /\ [i \in 1..n |-> log[s][i].call] =
               SubSeq(verifyToastMessage(op[s].expected), 1, n)

\* the toast shows "ok", the test expects "OK": assertion failure
C14_Witness ==
  /\ op[1].name = "verifyToastMessage" /\ op[1].expected = <<"O", "K">>
  /\ status[1] = "failed" /\ error[1] = "AssertionError"
  /\ log[1][2].read = << <<"o", "k">> >>

----------------------------------------------------------------------------
(* The highlight step: the same operation on two pages showing the same    *)
(* thing, session 1 with highlight, session 2 without.                     *)

InitHighlight ==
  /\ testEnv \in EnvSamples
  /\ CURRENT_ENV = Str(getEnvironmentUrl(testEnv))
  /\ bootEnv = testEnv
  /\ workers = Sessions
  /\ InitSessions

\* The application renders the same state of element e, with or without an
\* inline border and background of its own, in both pages; then it is still.
Render(e) ==
  /\ \A s \in Sessions : op[s] = NoOp /\ dom[s][e] = "detached"
  /\ \E st \in {"hidden", "visible"}, own \in BOOLEAN :
       /\ dom' = [s \in Sessions |-> [dom[s] EXCEPT ![e] = st]]
       /\ inline' = [s \in Sessions |-> IF own THEN inline[s] \cup {e} ELSE inline[s]]
  /\ UNCHANGED <<envVars, workers, pomVars, value, marked, textContent, netBusy,
                 url, submitted, runVars, histVars>>

\* session 1 calls o with highlight, session 2 the same o without
CallTwin(s, o) ==
  /\ op[s] = NoOp
  /\ \A t \in Sessions \ {s} :
       op[t] = NoOp \/ (op[t].name = o.name /\ op[t].a1 = o.a1 /\ op[t].a2 = o.a2)
  /\ CallUtils(s, [o EXCEPT !.highlight = (s = 1)])

CallTwinClick(s) ==
  CallTwin(s, [NoOp EXCEPT !.name = "utils.click", !.a1 = loginButton])

CallTwinFill(s) ==
  \E t \in Usernames :
    CallTwin(s, [NoOp EXCEPT !.name = "utils.fill", !.a1 = usernameInput, !.a2 = t])

NextHighlight ==
  \/ \E e \in {usernameInput, loginButton} : Render(e)
  \/ \E s \in Sessions :
       \/ NewPOManager(s)
       \/ CallTwinClick(s)
       \/ CallTwinFill(s)
       \/ EngineEvaluate(s)
       \/ EngineWaitForTimeout(s)
       \/ EngineWaitFor(s)
       \/ EngineFill(s)
       \/ EngineClick(s)
       \/ EngineTimeout(s)
       \/ Tick(s)

SpecHighlight == InitHighlight /\ [][NextHighlight]_vars

Done(s) == op[s] # NoOp /\ status[s] \in {"idle", "failed"}

\* C15: click and fill with highlight end as they end without it on the same
\* element state: the same success or error, the same action performed, the
\* same field values and submission, no marker left, and the element's inline
\* border and background as they were before the operation.
C15_HighlightHasNoEffect ==
  (Done(1) /\ Done(2)) =>
    /\ status[1] = status[2]
    /\ error[1] = error[2]
    /\ {log[1][i].call : i \in Actions(1)} = {log[2][i].call : i \in Actions(2)}
    /\ value[1] = value[2]
    /\ submitted[1] = submitted[2]
    /\ marked[1] = {}
    /\ inline[1] = inline[2]

----------------------------------------------------------------------------
(* Reading texts, on a page that goes on changing after the read.          *)

NextTexts ==
  \E s \in Sessions :
    \/ NewPOManager(s)
    \/ CallGetText(s)
    \/ CallGetAllTexts(s)
    \/ EngineWaitFor(s)
    \/ EngineTextContent(s)
    \/ EngineAllTextContents(s)
    \/ EngineTimeout(s)
    \/ Tick(s)
    \/ ElementChange(s)
    \/ LateChange(s)

SpecTexts == Init /\ [][NextTexts]_vars

\* the texts of the rows attached to page p, in document order
RowTexts(p) ==
  LET attached(e) == dom[p][e] # "detached"
      m == SelectSeq(Rows, attached)
  IN  [i \in 1..Len(m) |-> textContent[p][m[i]]]

\* C16: when getAllTexts returns it has made two calls: a wait that observed
\* the first matched element visible, then one read giving the texts of the
\* elements matched at the moment of the read, whatever their visibility and
\* with no wait for further elements; when getText returns it has observed
\* its element visible and then read that element's text.
C16_ReadsAfterFirstVisibleOnly ==
  [][\A s \in Sessions :
       (status[s] = "running" /\ status'[s] = "idle") =>
         /\ op[s].name = "getAllTexts" =>
              /\ Len(log'[s]) = 2
              /\ log'[s][1].call = WaitFor(first(op[s].a1), "visible", WaitTicks)
              /\ log'[s][1].target = "visible"
              /\ log'[s][2].call = AllTextContents(op[s].a1)
              /\ log'[s][2].read = RowTexts(PageOf(s))
         /\ op[s].name = "getText" =>
              /\ Len(log'[s]) = 2
              /\ log'[s][1].call = WaitFor(op[s].a1, "visible", WaitTicks)
              /\ log'[s][1].target = "visible"
              /\ log'[s][2].call = TextContent(op[s].a1)
              /\ log'[s][2].read = <<textContent[PageOf(s)][op[s].a1]>>]_vars

\* getAllTexts has returned the text of one row; a second row, rendered
\* after the read, is visible and is not in the result
C16_Witness ==
  /\ Returned(1, "getAllTexts")
  /\ log[1][2].read = << <<"o", "k">> >>
  /\ dom[1][row1] = "visible" /\ textContent[1][row1] = <<"o", "k">>
  /\ dom[1][row2] = "visible" /\ textContent[1][row2] = <<"n", "o">>

----------------------------------------------------------------------------
(* Two tests run in parallel workers, each calling one method.             *)

\* a test whose body is one call
Once(s) == op[s] = NoOp

\* Both workers have loaded environment.ts with TEST_ENV unset.
InitParallel ==
  /\ testEnv = Undefined
  /\ CURRENT_ENV = Str(getEnvironmentUrl(testEnv))
  /\ bootEnv = testEnv
  /\ workers = Sessions
  /\ InitSessions

NextParallel ==
  \E s \in Sessions :
    \/ NewPOManager(s)
    \/ Once(s) /\ CallType(s)
    \/ Once(s) /\ CallVerifyToastMessage(s)
    \/ EngineWaitFor(s)
    \/ EngineType(s)
    \/ EngineTextContent(s)
    \/ EngineExpectPass(s)
    \/ EngineExpectFail(s)
    \/ EngineTimeout(s)
    \/ Tick(s)
    \/ ElementChange(s)

SpecParallel == InitParallel /\ [][NextParallel]_vars

\* the page objects the manager of session s holds or has handed out
RefsOf(s) ==
  LET own == {pom[s]._loginPage, pom[s]._commonUtils, got[s].lpFirst,
              got[s].lpLast, got[s].cuFirst, got[s].cuLast} \ {NoRef}
  IN  own \cup ({heap[r].utils : r \in own} \ {NoRef})

\* everything that belongs to session s
SessionState(s) ==
  <<pom[s], got[s], dom[s], value[s], marked[s], inline[s], textContent[s],
    netBusy[s], url[s], submitted[s], status[s], error[s], op[s], elapsed[s],
    log[s], seen[s], together[s], before[s], opsLeft[s]>>

\* C17: in every interleaving of two sessions, the page objects of one
\* manager are not those of the other and are bound to the manager's own
\* page, and every step (a call, an engine step, a timeout, an assertion
\* failure, a change of a page) leaves everything of all sessions but one,
\* and every object already constructed, as it was.
C17_SessionsShareNoState ==
  [][/\ \A s \in Sessions :
          /\ \A r \in RefsOf(s)' : heap'[r].page = s
          /\ \A t \in Sessions \ {s} : RefsOf(s)' \cap RefsOf(t)' = {}
     /\ \E s \in Sessions :
          \A t \in Sessions \ {s} : SessionState(t)' = SessionState(t)
     /\ \A r \in DOMAIN heap : heap'[r] = heap[r]]_vars

\* session 1 has failed on an assertion, session 2 has returned from type
\* with its own field filled
C17_Witness ==
  /\ op[1].name = "verifyToastMessage"
  /\ status[1] = "failed" /\ error[1] = "AssertionError"
  /\ Returned(2, "type") /\ value[2][usernameInput] = "user1"
  /\ value[1][usernameInput] = ""
  /\ RefsOf(1) # {} /\ RefsOf(2) # {}

----------------------------------------------------------------------------
(* login and failing steps, checked under Spec.                            *)

\* where in the log of session s the engine call k was completed
DoneAt(s, k) == {i \in DOMAIN log[s] : log[s][i].call = k}

\* C18: login performs each of fill username, fill password and click submit
\* at most once and with the texts supplied; without the username filled the
\* password is not filled, without the password filled submit is not clicked,
\* and a click comes after both fills; a login that has failed has failed
\* with the TimeoutError of the call it stopped at, and has not completed it.
C18_LoginStopsAtFirstFailure ==
  \A s \in Sessions :
    op[s].name = "login" =>
      LET fu == DoneAt(s, LocatorFill(usernameInput, op[s].a1))
          fp == DoneAt(s, LocatorFill(passwordInput, op[s].a2))
          ck == DoneAt(s, LocatorClick(loginButton))
      IN  /\ Cardinality(fu) <= 1 /\ Cardinality(fp) <= 1 /\ Cardinality(ck) <= 1
          /\ \A i \in DOMAIN log[s] :
               log[s][i].call.call \in {"fill", "click"} => i \in fu \cup fp \cup ck
          /\ fu = {} => fp = {}
          /\ fp = {} => ck = {}
          /\ \A i \in ck : \E j \in fu, k \in fp : j < k /\ k < i
          /\ status[s] = "failed" =>
               /\ error[s] = "TimeoutError"
               /\ op[s].ip = Len(log[s]) + 1
               /\ ~Ready(s, Cur(s))

\* login has failed at the password field: the username is filled, the
\* password is not, nothing was submitted
C18_Witness ==
  /\ op[1].name = "login"
  /\ status[1] = "failed" /\ error[1] = "TimeoutError"
  /\ Cur(1).target = passwordInput
  /\ value[1][usernameInput] = "user1" /\ value[1][passwordInput] = ""
  /\ submitted[1] = "none"
  /\ DoneAt(1, LocatorClick(loginButton)) = {}

====
